---- MODULE Spec2Model ----
(***************************************************************************)
(* Model of the task-management data layer: the User, Task and Tag models  *)
(* (field declarations, validators, instance methods) and the associations *)
(* and global hooks of models/index.ts, run by the ORM against a           *)
(* relational store.                                                       *)
(*                                                                         *)
(* Strings are tuples of one-character strings, so that validators are     *)
(* computed on the characters.  Dates are integers (milliseconds on a      *)
(* small clock).  Null, NullEnum, NullDate and NullId stand for an        *)
(* attribute that is not given.                                            *)
(***************************************************************************)
EXTENDS Integers, Sequences, FiniteSets, Bags, TLC

VARIABLES users, projects, tasks, tags, taskTags, nextId, issued, now,
          lastResult, printed, call

vars == <<users, projects, tasks, tags, taskTags, nextId, issued, now,
          lastResult, printed, call>>

storeVars == <<users, projects, tasks, tags, taskTags, nextId, issued, now,
               lastResult, printed>>

\* ------------------------------------------------------------------ bounds
\* the number of ids each table hands out, and the last instant of the clock
MaxUsers == 2
MaxProjects == 2
MaxTasks == 2
MaxTags == 2
MaxTime == 2
\* the dates and instants isOverdue is called with
MaxDate == 3

\* -------------------------------------------------------------- characters
\* An attribute that is not given (null), per type: a string attribute, an
\* enumeration attribute, a date, a key.
Null == <<"null">>
NullEnum == "null"
NullDate == 0 - 1
NullId == 0

Lowers == {"a","b","c","d","e","f","g","h","i","j","k","l","m",
           "n","o","p","q","r","s","t","u","v","w","x","y","z"}
Uppers == {"A","B","C","D","E","F","G","H","I","J","K","L","M",
           "N","O","P","Q","R","S","T","U","V","W","X","Y","Z"}
Digits == {"0","1","2","3","4","5","6","7","8","9"}
HexLetters == {"a","b","c","d","e","f","A","B","C","D","E","F"}

LowerOf == [c \in {"A","B","C","D"} |->
              CASE c = "A" -> "a" [] c = "B" -> "b" [] c = "C" -> "c" [] OTHER -> "d"]

\* String.prototype.toLowerCase on one character (the alphabet in use has
\* the capitals A..D only).
toLowerChar(c) == IF c \in DOMAIN LowerOf THEN LowerOf[c] ELSE c

toLowerCase(s) == [i \in 1..Len(s) |-> toLowerChar(s[i])]

Range(s) == {s[i] : i \in 1..Len(s)}

\* --------------------------------------------------------------- validators
\* validate: { len: [min, max] }
len(s, min, max) == Len(s) >= min /\ Len(s) <= max

\* validate: { isAlphanumeric: true }   /^[a-zA-Z0-9]+$/
isAlphanumeric(s) == Len(s) >= 1 /\ Range(s) \subseteq (Lowers \cup Uppers \cup Digits)

\* validate: { is: /^[a-zA-Z]+$/ }
isLetters(s) == Len(s) >= 1 /\ Range(s) \subseteq (Lowers \cup Uppers)

\* validate: { isLowercase: true }
isLowercase(s) == s = toLowerCase(s)

\* validate: { isEmail: true }: one "@", a non-empty local part, a domain of
\* dot-separated non-empty alphanumeric labels whose last label has at least
\* two letters.
isEmail(s) ==
    \E at \in 1..Len(s) :
        /\ s[at] = "@"
        /\ \A j \in 1..Len(s) : s[j] = "@" => j = at
        /\ at > 1
        /\ \A j \in 1..(at - 1) : s[j] \in (Lowers \cup Uppers \cup Digits \cup {"."})
        /\ s[1] # "." /\ s[at - 1] # "."
        /\ \E dot \in (at + 2)..(Len(s) - 2) :
              /\ s[dot] = "."
              /\ \A j \in (dot + 1)..Len(s) : s[j] \in (Lowers \cup Uppers)
              /\ \A j \in (at + 1)..(dot - 1) :
                    /\ s[j] \in (Lowers \cup Uppers \cup Digits \cup {"."})
                    /\ (s[j] = "." => j > at + 1 /\ s[j - 1] # ".")

\* isStrongPassword: /^(?=.*[A-Z])(?=.*\d)(?=.*[\W_]).{8,100}$/
isStrongPassword(s) ==
    /\ \E i \in 1..Len(s) : s[i] \in Uppers
    /\ \E i \in 1..Len(s) : s[i] \in Digits
    /\ \E i \in 1..Len(s) : s[i] \notin (Lowers \cup Uppers \cup Digits)
    /\ Len(s) >= 8 /\ Len(s) <= 100

\* validate: { notEmpty: true }: not made of white space only
notEmpty(s) == \E i \in 1..Len(s) : s[i] # " "

\* validate: { is: /^#([A-Fa-f0-9]{6}|[A-Fa-f0-9]{3})$/ }
isHexColor(s) ==
    /\ Len(s) \in {4, 7}
    /\ s[1] = "#"
    /\ \A i \in 2..Len(s) : s[i] \in (HexLetters \cup Digits)

\* validate: { isIn: [[...]] }
isIn(v, allowed) == v \in allowed

TaskStatus == {"pending", "in_progress", "completed", "cancelled"}
TaskPriority == {"low", "medium", "high"}

\* (a variant that lets the current instant pass)
isFutureDateOrNow(value, current) == ~(value < current)

\* isFutureDate(value): throws when value <= new Date()
isFutureDate(value, current) == ~(value <= current)

Fail(field, rule) == [field |-> field, rule |-> rule]

\* The failures of one attribute: a null value of an allowNull:false
\* attribute is a notNull violation and its validators are not run; otherwise
\* every validator of the attribute runs, in the order declared.
FieldErrors(field, isNull, checks) ==
    IF isNull THEN <<Fail(field, "notNull")>>
    ELSE SelectSeq([i \in 1..Len(checks) |->
                      IF checks[i][2] THEN Fail(field, "ok") ELSE Fail(field, checks[i][1])],
                   LAMBDA e : e.rule # "ok")

\* The report of a validation.  The ORM checks allowNull on every attribute
\* first, and collects the failures of the validators as their promises
\* settle: the notNull failures come ahead of the validators' failures.
report(errs) ==
    SelectSeq(errs, LAMBDA e : e.rule = "notNull") \o SelectSeq(errs, LAMBDA e : e.rule # "notNull")

\* ------------------------------------------------------------- User schema
usernameErrors(v) ==
    FieldErrors("username", v = Null,
        <<  <<"len", len(v, 3, 30)>>,
            <<"isAlphanumeric", isAlphanumeric(v)>>  >>)

emailErrors(v) ==
    FieldErrors("email", v = Null,
        <<  <<"isEmail", isEmail(v)>>,
            <<"isLowercase", isLowercase(v)>>  >>)

passwordErrors(v) ==
    FieldErrors("password", v = Null,
        <<  <<"len", len(v, 8, 100)>>,
            <<"isStrongPassword", isStrongPassword(v)>>  >>)

firstNameErrors(v) ==
    FieldErrors("firstName", v = Null,
        <<  <<"len", len(v, 2, 50)>>,
            <<"is", isLetters(v)>>  >>)

lastNameErrors(v) ==
    FieldErrors("lastName", v = Null,
        <<  <<"len", len(v, 2, 50)>>,
            <<"is", isLetters(v)>>  >>)

\* (a variant that stops at the first attribute that fails)
validateUserFirstOnly(u) ==
    IF usernameErrors(u.username) # <<>> THEN usernameErrors(u.username)
    ELSE IF emailErrors(u.email) # <<>> THEN emailErrors(u.email)
    ELSE IF passwordErrors(u.password) # <<>> THEN passwordErrors(u.password)
    ELSE IF firstNameErrors(u.firstName) # <<>> THEN firstNameErrors(u.firstName)
    ELSE lastNameErrors(u.lastName)

\* Validation of a User: every attribute is validated and all the failures
\* are collected in one report.
validateUser(u) ==
    report(usernameErrors(u.username) \o emailErrors(u.email) \o passwordErrors(u.password)
             \o firstNameErrors(u.firstName) \o lastNameErrors(u.lastName))

\* ------------------------------------------------------------- Task schema
DefaultStatus == "pending"
DefaultPriority == "medium"

\* defaultValue of status and priority, applied when the attribute is absent
taskDefaults(c) ==
    [c EXCEPT !.status = IF @ = NullEnum THEN DefaultStatus ELSE @,
              !.priority = IF @ = NullEnum THEN DefaultPriority ELSE @]

titleErrors(v) == FieldErrors("title", v = Null, << <<"len", len(v, 3, 100)>> >>)

statusErrors(v) == FieldErrors("status", v = NullEnum, << <<"isIn", isIn(v, TaskStatus)>> >>)

dueDateErrors(v, current) ==
    FieldErrors("dueDate", v = NullDate,
        <<  <<"isDate", v \in Int>>,
            <<"isFutureDate", isFutureDate(v, current)>>  >>)

priorityErrors(v) == FieldErrors("priority", v = NullEnum, << <<"isIn", isIn(v, TaskPriority)>> >>)

userIdErrors(v) == FieldErrors("userId", v = NullId, <<>>)

projectIdErrors(v) == FieldErrors("projectId", v = NullId, <<>>)

validateTask(t, current) ==
    report(titleErrors(t.title) \o statusErrors(t.status) \o dueDateErrors(t.dueDate, current)
             \o priorityErrors(t.priority) \o userIdErrors(t.userId)
             \o projectIdErrors(t.projectId))

\* -------------------------------------------------------------- Tag schema
DefaultColor == <<"#","3","4","9","8","d","b">>

tagDefaults(c) == [c EXCEPT !.color = IF @ = Null THEN DefaultColor ELSE @]

nameErrors(v) ==
    FieldErrors("name", v = Null,
        <<  <<"notEmpty", notEmpty(v)>>,
            <<"len", len(v, 1, 50)>>  >>)

colorErrors(v) == FieldErrors("color", v = Null, << <<"is", isHexColor(v)>> >>)

validateTag(g) == report(nameErrors(g.name) \o colorErrors(g.color))

\* --------------------------------------------------------- instance methods
\* (a variant that counts a task due at this very instant as overdue)
isOverdueOrDueNow(task, current) ==
    IF task.dueDate <= current /\ task.status # "completed" THEN TRUE ELSE FALSE

\* Task.isOverdue, with the value of new Date() as a parameter
isOverdue(task, current) ==
    IF task.dueDate < current /\ task.status # "completed" THEN TRUE ELSE FALSE

\* A JavaScript number that is NaN or a non-negative ratio num/den, den > 0.
NaN == [nan |-> TRUE, num |-> 0, den |-> 1]
Num(n, d) == [nan |-> FALSE, num |-> n, den |-> d]

\* (a variant that guards the empty list)
DivideOrZero(a, b) == IF b = 0 THEN Num(0, 1) ELSE Num(a, b)

\* a / b for lengths a <= b: 0 / 0 is NaN
Divide(a, b) == IF b = 0 THEN NaN ELSE Num(a, b)

Times(x, k) == IF x.nan THEN NaN ELSE Num(x.num * k, x.den)

\* Number.prototype.toFixed(0): "NaN" for NaN, else the nearest integer, the
\* larger one of two equally near.
toFixed0(x) ==
    IF x.nan THEN [nan |-> TRUE, digits |-> 0]
    ELSE [nan |-> FALSE, digits |-> (2 * x.num + x.den) \div (2 * x.den)]

\* User.getTaskCompletionRate on the rows getTasks() returns
getTaskCompletionRate(userTasks) ==
    LET completedTasks == {t \in userTasks : t.status = "completed"}
        completionRate == Times(Divide(Cardinality(completedTasks), Cardinality(userTasks)), 100)
    IN  [text |-> toFixed0(completionRate), suffix |-> "%"]

\* -------------------------------------------------------------------- store
Kinds == {"User", "Project", "Task", "Tag"}

MaxOf == [k \in Kinds |->
            CASE k = "User" -> MaxUsers [] k = "Project" -> MaxProjects
              [] k = "Task" -> MaxTasks [] OTHER -> MaxTags]

NoInput == [none |-> TRUE]

InitStore ==
    /\ users = {}
    /\ projects = {}
    /\ tasks = {}
    /\ tags = {}
    /\ taskTags = EmptyBag
    /\ nextId = [k \in Kinds |-> 1]
    /\ issued = [k \in Kinds |-> {}]
    /\ now = 0
    /\ lastResult = [op |-> "none", input |-> NoInput, outcome |-> [kind |-> "none"]]
    /\ printed = <<>>

\* no instance method is being called on a detached instance
Init == InitStore /\ call = [fn |-> "none"]

\* the ids of the rows of a table
Ids(kind) ==
    CASE kind = "User" -> {r.id : r \in users}
      [] kind = "Project" -> {r.id : r \in projects}
      [] kind = "Task" -> {r.id : r \in tasks}
      [] OTHER -> {r.id : r \in tags}

\* (a variant that numbers a new row after the last row present)
NewIdAfterLast(kind) ==
    IF Ids(kind) = {} THEN 1
    ELSE 1 + CHOOSE m \in Ids(kind) : \A j \in Ids(kind) : j <= m

\* id: { autoIncrement: true, primaryKey: true }: the table's counter
NewId(kind) == nextId[kind]

\* The counter moves past the id handed out; issued records the ids handed
\* out so far.
Issue(kind, id) ==
    /\ nextId' = [nextId EXCEPT ![kind] = id + 1]
    /\ issued' = [issued EXCEPT ![kind] = @ \cup {id}]

Ok(id) == [kind |-> "Ok", id |-> id]
ValidationFailed(errs) == [kind |-> "ValidationFailed", errors |-> errs]
DuplicateValue(f) == [kind |-> "DuplicateValue", field |-> f]
DanglingReference(f) == [kind |-> "DanglingReference", field |-> f]

\* sequelize.addHook("afterCreate" | "afterUpdate" | "afterDestroy"): the
\* line the hook writes to the console
afterCreate(model, id) == [event |-> "created", model |-> model, id |-> id]
afterUpdate(model, id) == [event |-> "updated", model |-> model, id |-> id]
afterDestroy(model, id) == [event |-> "deleted", model |-> model, id |-> id]

\* An operation that fails: the tables are as before and no hook runs.
Reject(op, input, outcome) ==
    /\ lastResult' = [op |-> op, input |-> input, outcome |-> outcome]
    /\ printed' = <<>>
    /\ UNCHANGED <<users, projects, tasks, tags, taskTags, nextId, issued>>

\* The rows of the join table TaskTags that belong to none of the tasks
\* taskIds and none of the tags tagIds (ON DELETE CASCADE of the join table).
withoutRows(bag, taskIds, tagIds) ==
    [r \in {q \in DOMAIN bag : q.taskId \notin taskIds /\ q.tagId \notin tagIds} |-> bag[r]]

\* (a variant that cascades from users only)
cascadeTasksOfUsersOnly(fk, parentId) == {t \in tasks : fk = "userId" /\ t[fk] = parentId}

\* The tasks that go with a deleted parent: onDelete: "CASCADE" on the
\* foreign key fk.
cascadeTasks(fk, parentId) == {t \in tasks : t[fk] = parentId}

\* ---------------------------------------------------------------- User ops
CreateUser(c) ==
    LET errs == validateUser(c)
        dup == {f \in {"username", "email"} : \E u \in users : u[f] = c[f]}
        id == NewId("User")
    IN  /\ UNCHANGED <<now, call>>
        /\ IF errs # <<>> THEN Reject("createUser", c, ValidationFailed(errs))
           ELSE IF dup # {} THEN \E f \in dup : Reject("createUser", c, DuplicateValue(f))
           ELSE /\ id <= MaxUsers
                /\ users' = users \cup {[id |-> id, username |-> c.username, email |-> c.email,
                                         password |-> c.password, firstName |-> c.firstName,
                                         lastName |-> c.lastName]}
                /\ Issue("User", id)
                /\ lastResult' = [op |-> "createUser", input |-> c, outcome |-> Ok(id)]
                /\ printed' = <<afterCreate("User", id)>>
                /\ UNCHANGED <<projects, tasks, tags, taskTags>>

DeleteUser(u) ==
    LET gone == cascadeTasks("userId", u.id)
    IN  /\ u \in users
        /\ users' = users \ {u}
        /\ tasks' = tasks \ gone
        /\ taskTags' = withoutRows(taskTags, {t.id : t \in gone}, {})
        /\ lastResult' = [op |-> "deleteUser", input |-> [id |-> u.id],
                          outcome |-> [kind |-> "Ok", id |-> u.id, cascaded |-> Cardinality(gone)]]
        /\ printed' = <<afterDestroy("User", u.id)>>
        /\ UNCHANGED <<projects, tags, nextId, issued, now, call>>

\* ------------------------------------------------------------- Project ops
CreateProject ==
    LET id == NewId("Project")
    IN  /\ id <= MaxProjects
        /\ projects' = projects \cup {[id |-> id]}
        /\ Issue("Project", id)
        /\ lastResult' = [op |-> "createProject", input |-> NoInput, outcome |-> Ok(id)]
        /\ printed' = <<afterCreate("Project", id)>>
        /\ UNCHANGED <<users, tasks, tags, taskTags, now, call>>

DeleteProject(p) ==
    LET gone == cascadeTasks("projectId", p.id)
    IN  /\ p \in projects
        /\ projects' = projects \ {p}
        /\ tasks' = tasks \ gone
        /\ taskTags' = withoutRows(taskTags, {t.id : t \in gone}, {})
        /\ lastResult' = [op |-> "deleteProject", input |-> [id |-> p.id],
                          outcome |-> [kind |-> "Ok", id |-> p.id, cascaded |-> Cardinality(gone)]]
        /\ printed' = <<afterDestroy("Project", p.id)>>
        /\ UNCHANGED <<users, tags, nextId, issued, now, call>>

\* ---------------------------------------------------------------- Task ops
\* (a variant that checks the user only)
danglingUserOnly(row) == {f \in {"userId"} : \A u \in users : u.id # row.userId}

\* references: { model: "users" | "projects", key: "id" }: the foreign keys
\* of the row that name no row of the parent table
dangling(row) ==
    {f \in {"userId", "projectId"} :
        IF f = "userId" THEN \A u \in users : u.id # row.userId
                        ELSE \A p \in projects : p.id # row.projectId}

CreateTask(c) ==
    LET row == taskDefaults(c)
        errs == validateTask(row, now)
        bad == dangling(row)
        id == NewId("Task")
    IN  /\ UNCHANGED <<now, call>>
        /\ IF errs # <<>> THEN Reject("createTask", c, ValidationFailed(errs))
           ELSE IF bad # {} THEN \E f \in bad : Reject("createTask", c, DanglingReference(f))
           ELSE /\ id <= MaxTasks
                /\ tasks' = tasks \cup {[id |-> id, title |-> row.title, status |-> row.status,
                                         dueDate |-> row.dueDate, priority |-> row.priority,
                                         userId |-> row.userId, projectId |-> row.projectId]}
                /\ Issue("Task", id)
                /\ lastResult' = [op |-> "createTask", input |-> c, outcome |-> Ok(id)]
                /\ printed' = <<afterCreate("Task", id)>>
                /\ UNCHANGED <<users, projects, tags, taskTags>>

\* The validators of the one attribute that an update changes
changedErrors(field, row, current) ==
    CASE field = "status" -> statusErrors(row.status)
      [] field = "dueDate" -> dueDateErrors(row.dueDate, current)
      [] field = "userId" -> userIdErrors(row.userId)
      [] OTHER -> projectIdErrors(row.projectId)

\* task.update({ field: value }) with a value that differs from the stored one
UpdateTask(t, field, value) ==
    LET row == [t EXCEPT ![field] = value]
        errs == changedErrors(field, row, now)
        bad == dangling(row)
        input == [id |-> t.id, field |-> field, value |-> value]
    IN  /\ t \in tasks
        /\ t[field] # value
        /\ UNCHANGED <<now, call>>
        /\ IF errs # <<>> THEN Reject("updateTask", input, ValidationFailed(errs))
           ELSE IF bad # {} THEN \E f \in bad : Reject("updateTask", input, DanglingReference(f))
           ELSE /\ tasks' = (tasks \ {t}) \cup {row}
                /\ lastResult' = [op |-> "updateTask", input |-> input, outcome |-> Ok(t.id)]
                /\ printed' = <<afterUpdate("Task", t.id)>>
                /\ UNCHANGED <<users, projects, tags, taskTags, nextId, issued>>

DeleteTask(t) ==
    /\ t \in tasks
    /\ tasks' = tasks \ {t}
    /\ taskTags' = withoutRows(taskTags, {t.id}, {})
    /\ lastResult' = [op |-> "deleteTask", input |-> [id |-> t.id], outcome |-> Ok(t.id)]
    /\ printed' = <<afterDestroy("Task", t.id)>>
    /\ UNCHANGED <<users, projects, tags, nextId, issued, now, call>>

\* ----------------------------------------------------------------- Tag ops
CreateTag(c) ==
    LET row == tagDefaults(c)
        errs == validateTag(row)
        id == NewId("Tag")
    IN  /\ UNCHANGED <<now, call>>
        /\ IF errs # <<>> THEN Reject("createTag", c, ValidationFailed(errs))
           ELSE IF \E g \in tags : g.name = row.name
                THEN Reject("createTag", c, DuplicateValue("name"))
           ELSE /\ id <= MaxTags
                /\ tags' = tags \cup {[id |-> id, name |-> row.name, color |-> row.color]}
                /\ Issue("Tag", id)
                /\ lastResult' = [op |-> "createTag", input |-> c, outcome |-> Ok(id)]
                /\ printed' = <<afterCreate("Tag", id)>>
                /\ UNCHANGED <<users, projects, tasks, taskTags>>

DeleteTag(g) ==
    /\ g \in tags
    /\ tags' = tags \ {g}
    /\ taskTags' = withoutRows(taskTags, {}, {g.id})
    /\ lastResult' = [op |-> "deleteTag", input |-> [id |-> g.id], outcome |-> Ok(g.id)]
    /\ printed' = <<afterDestroy("Tag", g.id)>>
    /\ UNCHANGED <<users, projects, tasks, nextId, issued, now, call>>

\* (a variant that does not look at the rows present)
unassociatedAll(taskId, tagIds) == tagIds

\* The tags among tagIds that task taskId is not yet associated with
unassociated(taskId, tagIds) ==
    {g \in tagIds : ~BagIn([taskId |-> taskId, tagId |-> g], taskTags)}

\* task.addTags(tags): one row of TaskTags for each tag not yet associated
AddTags(t, tagIds) ==
    LET new == unassociated(t.id, tagIds)
    IN  /\ t \in tasks
        /\ tagIds # {} /\ tagIds \subseteq {g.id : g \in tags}
        /\ taskTags' = taskTags (+) SetToBag({[taskId |-> t.id, tagId |-> g] : g \in new})
        /\ lastResult' = [op |-> "addTags", input |-> [id |-> t.id, tags |-> tagIds],
                          outcome |-> [kind |-> "Ok", id |-> t.id, added |-> Cardinality(new)]]
        /\ printed' = <<>>
        /\ UNCHANGED <<users, projects, tasks, tags, nextId, issued, now, call>>

\* task.removeTags(tags)
RemoveTags(t, tagIds) ==
    /\ t \in tasks
    /\ tagIds # {} /\ tagIds \subseteq {g.id : g \in tags}
    /\ taskTags' = [r \in {q \in DOMAIN taskTags : ~(q.taskId = t.id /\ q.tagId \in tagIds)}
                        |-> taskTags[r]]
    /\ lastResult' = [op |-> "removeTags", input |-> [id |-> t.id, tags |-> tagIds],
                      outcome |-> Ok(t.id)]
    /\ printed' = <<>>
    /\ UNCHANGED <<users, projects, tasks, tags, nextId, issued, now, call>>

\* -------------------------------------------------------------- other steps
\* user.getTaskCompletionRate(): getTasks() is the tasks with this userId
GetTaskCompletionRate(u) ==
    /\ u \in users
    /\ lastResult' = [op |-> "getTaskCompletionRate", input |-> [id |-> u.id],
                      outcome |-> [kind |-> "Ok", id |-> u.id,
                                   value |-> getTaskCompletionRate({t \in tasks : t.userId = u.id})]]
    /\ printed' = <<>>
    /\ UNCHANGED <<users, projects, tasks, tags, taskTags, nextId, issued, now, call>>

\* time passes
Tick ==
    /\ now < MaxTime
    /\ now' = now + 1
    /\ UNCHANGED <<users, projects, tasks, tags, taskTags, nextId, issued,
                   lastResult, printed, call>>

\* ---------------------------------------------------------- pure functions
\* task.isOverdue() on a Task instance at some instant
CallIsOverdue ==
    /\ call.fn = "isOverdue" /\ ~call.done
    /\ call' = [call EXCEPT !.done = TRUE, !.result = isOverdue(call.task, call.current)]
    /\ UNCHANGED storeVars

\* user.validate() on a candidate User
CallValidateUser ==
    /\ call.fn = "validateUser" /\ ~call.done
    /\ call' = [call EXCEPT !.done = TRUE, !.errors = validateUser(call.user)]
    /\ UNCHANGED storeVars

\* ------------------------------------------------------------------ inputs
UsernameOk == <<"a","b","c">>
UsernameOk2 == <<"a","b","1">>
UsernameShort == <<"a","b">>
UsernameSymbol == <<"a","b","!">>
EmailOk == <<"a","@","b",".","c","o">>
EmailUpper == <<"A","@","b",".","c","o">>
EmailOk2 == <<"c","@","b",".","c","o">>
EmailNoAt == <<"a","b",".","c","o">>
PasswordOk == <<"A","a","1","!","a","a","a","a">>
PasswordWeak == <<"a","a","a","a","a","a","a","a">>
PasswordShort == <<"A","1","!","a">>
NameOk == <<"a","b">>
NameShort == <<"a">>
NameDigit == <<"a","1">>
TitleOk == <<"a","b","c">>
TitleShort == <<"a","b">>
TagNameOk == <<"x">>
TagNameOk2 == <<"y">>
TagNameBlank == <<" ">>
ColorOk == <<"#","f","f","f">>
ColorBad == <<"r","e","d">>

UserA == [username |-> UsernameOk, email |-> EmailOk, password |-> PasswordOk,
          firstName |-> NameOk, lastName |-> NameOk]
UserB == [username |-> UsernameOk2, email |-> EmailOk2, password |-> PasswordOk,
          firstName |-> NameOk, lastName |-> NameOk]

TaskPlain(d) == [title |-> TitleOk, status |-> NullEnum, dueDate |-> d, priority |-> NullEnum]

\* Tasks that are valid whenever they are created before the clock's last
\* instant, for every pair of parents, and one with a title that is too short
TaskRefs ==
    [title : {TitleOk}, status : {NullEnum}, dueDate : {MaxTime},
     priority : {NullEnum}, userId : 1..MaxUsers, projectId : 1..MaxProjects]
    \cup {[title |-> TitleShort, status |-> NullEnum, dueDate |-> MaxTime,
            priority |-> NullEnum, userId |-> 1, projectId |-> 1]}

RefUpdates == ({"userId"} \X (1..MaxUsers)) \cup ({"projectId"} \X (1..MaxProjects))

\* ----------------------------------- users, projects and tasks (references)
Next ==
    \/ \E c \in {UserA, UserB} : CreateUser(c)
    \/ \E u \in users : DeleteUser(u)
    \/ CreateProject
    \/ \E p \in projects : DeleteProject(p)
    \/ \E c \in TaskRefs : CreateTask(c)
    \/ \E t \in tasks, fv \in RefUpdates : UpdateTask(t, fv[1], fv[2])
    \/ \E t \in tasks : DeleteTask(t)

Spec == Init /\ [][Next]_vars

\* ------------------------------------------------------- users (uniqueness)
UserCreates ==
    [username : {UsernameOk, UsernameOk2}, email : {EmailOk, EmailUpper, EmailOk2},
     password : {PasswordOk, PasswordWeak}, firstName : {NameOk}, lastName : {NameOk}]

NextUsers ==
    \/ \E c \in UserCreates : CreateUser(c)
    \/ \E u \in users : DeleteUser(u)

SpecUsers == Init /\ [][NextUsers]_vars

\* ------------------------------------------------------- tasks and the clock
TaskDue ==
    [title : {TitleOk}, status : {NullEnum, "completed"}, dueDate : 0..MaxTime,
     priority : {NullEnum}, userId : {1}, projectId : {1}]
    \cup [title : {TitleShort}, status : {NullEnum}, dueDate : {0, MaxTime},
           priority : {NullEnum, "urgent"}, userId : {1}, projectId : {1}]

NextDue ==
    \/ CreateUser(UserA)
    \/ CreateProject
    \/ \E c \in TaskDue : CreateTask(c)
    \/ \E t \in tasks, d \in 0..MaxTime : UpdateTask(t, "dueDate", d)
    \/ \E t \in tasks : DeleteTask(t)
    \/ Tick

SpecDue == Init /\ [][NextDue]_vars

\* ------------------------------------------------------------ tasks and tags
TagInputs == [name : {TagNameOk, TagNameOk2, TagNameBlank}, color : {Null, ColorBad}]

TaskOfFirst == [title |-> TitleOk, status |-> NullEnum, dueDate |-> MaxTime,
                priority |-> NullEnum, userId |-> 1, projectId |-> 1]

NextTags ==
    \/ CreateUser(UserA)
    \/ CreateProject
    \/ CreateTask(TaskOfFirst)
    \/ \E t \in tasks : DeleteTask(t)
    \/ \E c \in TagInputs : CreateTag(c)
    \/ \E g \in tags : DeleteTag(g)
    \/ \E t \in tasks, ids \in SUBSET (1..MaxTags) : AddTags(t, ids)
    \/ \E t \in tasks, ids \in SUBSET (1..MaxTags) : RemoveTags(t, ids)

SpecTags == Init /\ [][NextTags]_vars

\* ---------------------------------------------------------------------- ids
NextIds ==
    \/ CreateUser(UserA)
    \/ \E u \in users : DeleteUser(u)
    \/ CreateProject
    \/ \E c \in TaskRefs : CreateTask(c)
    \/ \E t \in tasks : DeleteTask(t)
    \/ \E c \in TagInputs : CreateTag(c)
    \/ \E g \in tags : DeleteTag(g)

SpecIds == Init /\ [][NextIds]_vars

\* ---------------------------------------------------------- completion rate
TaskRated ==
    [title : {TitleOk}, status : {NullEnum, "completed"}, dueDate : {MaxTime},
     priority : {NullEnum}, userId : 1..MaxUsers, projectId : {1}]

NextRate ==
    \/ \E c \in {UserA, UserB} : CreateUser(c)
    \/ CreateProject
    \/ \E c \in TaskRated : CreateTask(c)
    \/ \E t \in tasks, v \in {"in_progress", "completed"} : UpdateTask(t, "status", v)
    \/ \E t \in tasks : DeleteTask(t)
    \/ \E u \in users : GetTaskCompletionRate(u)

SpecRate == Init /\ [][NextRate]_vars

\* ---------------------------------------------------------------- isOverdue
InitOverdue ==
    /\ InitStore
    /\ call \in [fn : {"isOverdue"}, task : [dueDate : 0..MaxDate, status : TaskStatus],
                 current : 0..MaxDate, done : {FALSE}, result : {FALSE}]

NextOverdue == CallIsOverdue

SpecOverdue == InitOverdue /\ [][NextOverdue]_vars

\* ----------------------------------------------------------------- validate
UserCandidates ==
    [username : {UsernameOk, UsernameShort, UsernameSymbol, Null},
     email : {EmailOk, EmailUpper, EmailNoAt},
     password : {PasswordOk, PasswordWeak, PasswordShort},
     firstName : {NameOk, NameShort, NameDigit},
     lastName : {NameOk, NameDigit, Null}]

InitValidate ==
    /\ InitStore
    /\ call \in [fn : {"validateUser"}, user : UserCandidates, done : {FALSE}, errors : {<<>>}]

NextValidate == CallValidateUser

SpecValidate == InitValidate /\ [][NextValidate]_vars

\* A step of the operation op: every operation but Tick leaves the clock
\* alone and records itself in lastResult.
Step(op) == now' = now /\ lastResult'.op = op

Tables == <<users, projects, tasks, tags, taskTags>>

\* ------------------------------------------------------------------ claims
\* C1: deleting a User removes every Task whose userId is that user, and
\* deleting a Project removes every Task whose projectId is that project:
\* when the delete has completed, the parent is gone and no Task that
\* references it remains.
C1_CascadeDelete ==
    [][ /\ Step("deleteUser") =>
            /\ \A u \in users' : u.id # lastResult'.input.id
            /\ \A t \in tasks' : t.userId # lastResult'.input.id
        /\ Step("deleteProject") =>
            /\ \A q \in projects' : q.id # lastResult'.input.id
            /\ \A t \in tasks' : t.projectId # lastResult'.input.id ]_vars

\* a User with two tasks has been deleted, and the tasks went with it
C1_Witness ==
    /\ lastResult.op = "deleteUser"
    /\ lastResult.outcome.cascaded = 2
    /\ tasks = {}

\* Every Task's userId and projectId name an existing User and Project.
RefIntegrity ==
    \A t \in tasks : (\E u \in users : u.id = t.userId) /\ (\E q \in projects : q.id = t.projectId)

\* The foreign keys of the Task that the create or update recorded in r asks
\* for, which name no row of the parent tables.
AskedDangling(r) ==
    ( IF \/ r.op = "createTask" /\ \A u \in users : u.id # r.input.userId
         \/ r.op = "updateTask" /\ r.input.field = "userId"
                /\ \A u \in users : u.id # r.input.value
      THEN {"userId"} ELSE {} )
    \cup
    ( IF \/ r.op = "createTask" /\ \A q \in projects : q.id # r.input.projectId
         \/ r.op = "updateTask" /\ r.input.field = "projectId"
                /\ \A q \in projects : q.id # r.input.value
      THEN {"projectId"} ELSE {} )

C3_DuplicateEmailIgnoringCase ==
    [][ ( /\ Step("createUser")
          /\ lastResult'.input.password = PasswordOk
          /\ \A u \in users : u.username # lastResult'.input.username
          /\ \E u \in users : u.email = toLowerCase(lastResult'.input.email) ) =>
              /\ lastResult'.outcome = DuplicateValue("email")
              /\ users' = users ]_vars

\* C4: creating a Task with otherwise valid fields, existing userId and
\* projectId and no status: a dueDate not strictly after the current time
\* fails with the one failure (dueDate, isFutureDate) and stores nothing; a
\* dueDate strictly after it succeeds, and the stored row has status
\* "pending".
C4_DueDateAndDefaultStatus ==
    [][ ( /\ Step("createTask")
          /\ lastResult'.input.title = TitleOk
          /\ lastResult'.input.status = NullEnum
          /\ lastResult'.input.priority = NullEnum
          /\ \E u \in users : u.id = lastResult'.input.userId
          /\ \E q \in projects : q.id = lastResult'.input.projectId ) =>
              IF lastResult'.input.dueDate <= now
              THEN /\ lastResult'.outcome = ValidationFailed(<<Fail("dueDate", "isFutureDate")>>)
                   /\ tasks' = tasks
              ELSE /\ lastResult'.outcome.kind = "Ok"
                   /\ \E t \in tasks' :
                        /\ t.id = lastResult'.outcome.id
                        /\ t.status = "pending"
                        /\ t \notin tasks
                        /\ tasks' = tasks \cup {t} ]_vars

\* a Task given without a status has been created with a dueDate in the
\* future, and is stored as pending
C4_Witness ==
    /\ lastResult.op = "createTask"
    /\ lastResult.outcome.kind = "Ok"
    /\ lastResult.input.status = NullEnum
    /\ lastResult.input.dueDate > now
    /\ \E t \in tasks : t.id = lastResult.outcome.id /\ t.status = "pending"

\* C5: isOverdue() is true exactly when dueDate is strictly before the
\* current time and status is not "completed": a pending, in_progress or
\* cancelled task is overdue exactly when its dueDate is past, a completed
\* task never.
C5_IsOverdue ==
    (call.fn = "isOverdue" /\ call.done) =>
        /\ call.task.status \in {"pending", "in_progress", "cancelled"} =>
              (call.result <=> call.task.dueDate < call.current)
        /\ call.task.status = "completed" => ~call.result

\* isOverdue has answered true for a cancelled task whose dueDate is past
C5_Witness ==
    /\ call.fn = "isOverdue" /\ call.done
    /\ call.task.status = "cancelled"
    /\ call.task.dueDate < call.current
    /\ call.result

\* at most one row of TaskTags for each (taskId, tagId)
AtMostOneRow == \A r \in DOMAIN taskTags : taskTags[r] = 1

C8_IdsIncrease ==
    [][ \A k \in {"User", "Task", "Tag"} :
            \A id \in Ids(k)' \ Ids(k) : \A j \in issued[k] : id > j ]_vars

\* a Tag has been created after the Tag with id 1 was deleted, and has id 2
C8_Witness ==
    /\ lastResult.op = "createTag"
    /\ lastResult.outcome.kind = "Ok"
    /\ lastResult.outcome.id = 2
    /\ Ids("Tag") = {2}

UserFields == <<"username", "email", "password", "firstName", "lastName">>

\* the candidate values that break a rule of their field
BadValues ==
    [username |-> {UsernameShort, UsernameSymbol, Null},
     email |-> {EmailUpper, EmailNoAt},
     password |-> {PasswordWeak, PasswordShort},
     firstName |-> {NameShort, NameDigit},
     lastName |-> {NameDigit, Null}]

FieldPos(f) == CHOOSE i \in 1..Len(UserFields) : UserFields[i] = f

\* the report names every field of the candidate that breaks a rule, and
\* no other field
NamesTheBadFields ==
    \A i \in 1..Len(UserFields) :
        (call.user[UserFields[i]] \in BadValues[UserFields[i]])
            <=> (\E n \in 1..Len(call.errors) : call.errors[n].field = UserFields[i])

\* C9 (as claimed): the report of a validation names every field of the
\* candidate that breaks a rule and no other field, in field declaration
\* order.
C9_InDeclarationOrder ==
    (call.fn = "validateUser" /\ call.done) =>
        /\ NamesTheBadFields
        /\ \A m, n \in 1..Len(call.errors) :
              m < n => FieldPos(call.errors[m].field) <= FieldPos(call.errors[n].field)

\* C9 (amended): the one report of a validation names every field of the
\* candidate that breaks a rule, and no field whose rules all hold; a valid
\* candidate has an empty report.
C9_AllFailuresReported ==
    (call.fn = "validateUser" /\ call.done) =>
        /\ NamesTheBadFields
        /\ (call.errors = <<>>) <=>
              (\A i \in 1..Len(UserFields) : call.user[UserFields[i]] \notin BadValues[UserFields[i]])

\* a candidate with a bad username, password and firstName and a good email
\* and lastName has been validated: the report names these three fields
C9_Witness ==
    /\ call.fn = "validateUser" /\ call.done
    /\ call.user = [username |-> UsernameSymbol, email |-> EmailOk, password |-> PasswordWeak,
                    firstName |-> NameDigit, lastName |-> NameOk]
    /\ {call.errors[n].field : n \in 1..Len(call.errors)} = {"username", "password", "firstName"}

\* C10: getTaskCompletionRate divides the number of the user's completed
\* tasks by the number of the user's tasks, unguarded: with at least one task
\* the result is the whole percentage nearest to completed / total * 100,
\* between 0% and 100%; with no task the division is 0 / 0 and the result is
\* no percentage ("NaN%").
C10_CompletionRate ==
    lastResult.op = "getTaskCompletionRate" =>
        LET mine == {t \in tasks : t.userId = lastResult.input.id}
            total == Cardinality(mine)
            completed == Cardinality({t \in mine : t.status = "completed"})
            v == lastResult.outcome.value
        IN  /\ v.suffix = "%"
            /\ IF total = 0 THEN v.text.nan
               ELSE /\ ~v.text.nan
                    /\ v.text.digits \in 0..100
                    /\ 2 * (v.text.digits * total - 100 * completed) <= total
                    /\ 2 * (100 * completed - v.text.digits * total) <= total

\* the rate of a user without tasks has been computed, and is "NaN%"
C10_Witness ==
    /\ lastResult.op = "getTaskCompletionRate"
    /\ \A t \in tasks : t.userId # lastResult.input.id
    /\ tasks # {}
    /\ lastResult.outcome.value.text.nan

====
